---- MODULE Spec2Model ----
(***************************************************************************)
(* A model of HeifImagePlugin.py: the open-time metadata pipeline          *)
(* (_extract_heif_exif, _rotate_heif_file), the lazy pixel load with its   *)
(* zero-copy crop (_crop_heif_file, HeifImageFile.load) and the streaming  *)
(* save through the external encoder (_save).                              *)
(*                                                                         *)
(* Three specifications share the module: SpecOpen, SpecLoad and SpecSave. *)
(* Each one drives its own group of variables and pins the others.         *)
(***************************************************************************)
EXTENDS Integers, Sequences, FiniteSets, TLC

VARIABLES
    \* ---- module globals and the Python heap the open and load paths work on
    hasTransformations, \* whether pyheif.transformations could be imported
    heifs,        \* heif objects: id -> [mode, size, stride, data, trans, exif, metadata]
    transs,       \* Transformations objects: id -> [crop, orientation_tag]
    \* ---- the HeifImageFile object
    self_heif_file, \* self.heif_file: a heif id or "None"
    self_size,      \* self._size
    self_mode,      \* self.mode
    self_info_exif, \* self.info['exif'] (None when unset)
    \* ---- HeifImageFile._open
    opc,          \* position in _open
    given,        \* the heif object and its transformations as pyheif.open returned them
    \* ---- HeifImageFile.load and _crop_heif_file
    LOAD_TRUNCATED_IMAGES, \* ImageFile.LOAD_TRUNCATED_IMAGES
    bufs,         \* byte storage that has not been released: id -> bytes
    cdatas,       \* cffi pointers: id -> [base, offset]
    views,        \* cffi buffers: id -> [cdata, length]
    keep_refs,    \* _keep_refs: weak key (a cdata id) -> the object kept
    lpc,          \* position in load
    local_heif,   \* the local heif_file of load: a heif id or "None"
    im_pixels,    \* the rows frombytes stored in the image
    raised,       \* what the last load call raised ("None": it returned)
    decode_error, \* the (code, subcode) of the decoder's error, <<0, 0>> when none
    n_load,       \* calls of load so far
    n_decode,     \* calls of the decoder's heif_file.load() so far
    n_crop,       \* calls of _crop_heif_file so far
    \* ---- _save
    im_mode,      \* im.mode
    info,         \* im.encoderinfo: option -> [set, v] (set = FALSE: not given)
    filename,     \* the target file name, a sequence of characters
    spc,          \* position in _save
    tmp_exists,   \* whether the NamedTemporaryFile exists
    cmd,          \* the argument list built so far
    child,        \* the encoder process: "none", "running", "exited", "reaped"
    spawned_cmd,  \* the argument list Popen was given
    stdout_open,  \* whether the child still holds its stdout open
    reader_open,  \* whether the parent still holds enc.stdout open
    child_written,\* bytes the child has written to its stdout so far
    child_writes, \* write calls the child has made
    exit_code,    \* the child's exit status
    read_pos,     \* bytes the parent has read from enc.stdout so far
    short_reads,  \* reads that returned less than was there to read
    chunk,        \* the chunk read and not yet written: [start, len]
    sink,         \* the writes fp has received, in order: [start, len] each
    eof,          \* whether the read loop has seen b''
    error         \* what _save raised: [kind, code, cmd]

imageVars == <<hasTransformations, heifs, transs, self_heif_file, self_size, self_mode,
               self_info_exif>>
openVars == <<opc, given>>
loadVars == <<LOAD_TRUNCATED_IMAGES, bufs, cdatas, views, keep_refs, lpc, local_heif,
              im_pixels, raised, decode_error, n_load, n_decode, n_crop>>
saveVars == <<im_mode, info, filename, spc, tmp_exists, cmd, child, spawned_cmd,
              stdout_open, reader_open, child_written, child_writes, exit_code, read_pos,
              short_reads, chunk, sink, eof, error>>
vars == <<imageVars, openVars, loadVars, saveVars>>

\* ------------------------------------------------------------------ bytes
\* Python's None for an optional bytes value; -1 is no byte.
None == <<-1>>

\* Truth value of an optional bytes object: None and b"" are falsy.
Truthy(b) == b # None /\ b # <<>>

\* b"Exif"
ExifMagic == <<69, 120, 105, 102>>

\* data[0:4], Python slicing: short data gives a short slice
Slice4(b) == SubSeq(b, 1, IF Len(b) < 4 THEN Len(b) ELSE 4)

\* ----------------------------------------------------------------- piexif
\* An Exif block is modelled as the magic followed by (tag, value) pairs of
\* the 0th IFD; piexif.load gives the IFD as a dict, piexif.dump writes the
\* pairs back in ascending tag order.
OrientationTag == 274
MakeTag == 271
KnownTags == {MakeTag, OrientationTag}

RECURSIVE ParsePairs(_, _, _)
ParsePairs(payload, i, ifd) ==
    IF i > Len(payload) THEN [ok |-> TRUE, ifd |-> ifd]
    ELSE IF i = Len(payload) \/ payload[i] \notin KnownTags
         THEN [ok |-> FALSE, ifd |-> <<>>]
         ELSE ParsePairs(payload, i + 2, (payload[i] :> payload[i + 1]) @@ ifd)

\* piexif.load(data): [ok |-> FALSE] stands for any exception it raises
piexif_load(data) ==
    IF Len(data) >= 4 /\ SubSeq(data, 1, 4) = ExifMagic
    THEN ParsePairs(SubSeq(data, 5, Len(data)), 1, <<>>)
    ELSE [ok |-> FALSE, ifd |-> <<>>]

MinOf(S) == CHOOSE x \in S : \A y \in S : x <= y

RECURSIVE DumpPairs(_, _)
DumpPairs(ifd, tags) ==
    IF tags = {} THEN <<>>
    ELSE LET t == MinOf(tags)
         IN  <<t, ifd[t]>> \o DumpPairs(ifd, tags \ {t})

\* piexif.dump(exif_dict)
piexif_dump(ifd) == ExifMagic \o DumpPairs(ifd, DOMAIN ifd)

\* ------------------------------------------------------ _extract_heif_exif
\* The loop of _extract_heif_exif over items i..Len(items), carrying
\* heif_file.exif and clean_metadata.
RECURSIVE ExtractLoop(_, _, _, _)
ExtractLoop(items, i, exif, clean) ==
    IF i > Len(items) THEN [exif |-> exif, metadata |-> clean]
    ELSE LET item == items[i]
         IN  IF item.type = "Exif"
             THEN IF exif = None /\ Truthy(item.data) /\ Slice4(item.data) = ExifMagic
                  THEN ExtractLoop(items, i + 1, item.data, clean)
                  ELSE ExtractLoop(items, i + 1, exif, clean)
             ELSE ExtractLoop(items, i + 1, exif, Append(clean, item))

\* heif_file.metadata = None
NoMetadata == <<[type |-> "None", data |-> None]>>

\* heif_file.metadata or []
MetadataOrEmpty(m) == IF m = NoMetadata THEN <<>> ELSE m

\* A variant of the loop in which the first Exif-typed item decides, valid or
\* not: `seen` is set by any Exif item.
RECURSIVE ExtractLoopFirstTyped(_, _, _, _, _)
ExtractLoopFirstTyped(items, i, exif, clean, seen) ==
    IF i > Len(items) THEN [exif |-> exif, metadata |-> clean]
    ELSE LET item == items[i]
         IN  IF item.type = "Exif"
             THEN IF ~seen /\ Truthy(item.data) /\ Slice4(item.data) = ExifMagic
                  THEN ExtractLoopFirstTyped(items, i + 1, item.data, clean, TRUE)
                  ELSE ExtractLoopFirstTyped(items, i + 1, exif, clean, TRUE)
             ELSE ExtractLoopFirstTyped(items, i + 1, exif, Append(clean, item), seen)

extract_heif_exif_first_typed(hs, h) ==
    LET r == ExtractLoopFirstTyped(MetadataOrEmpty(hs[h].metadata), 1, None, <<>>, FALSE)
    IN  [hs EXCEPT ![h].exif = r.exif, ![h].metadata = r.metadata]

\* _extract_heif_exif(heif_file): alters the heif object h in place
extract_heif_exif(hs, h) ==
    LET r == ExtractLoop(MetadataOrEmpty(hs[h].metadata), 1, None, <<>>)
    IN  [hs EXCEPT ![h].exif = r.exif, ![h].metadata = r.metadata]

\* ------------------------------------------------------- _rotate_heif_file
\* A variant that patches the orientation without copying the
\* Transformations object, so the copy and the input share it.
rotate_heif_file_shared_trans(hs, ts, h) ==
    LET orientation == ts[hs[h].trans].orientation_tag
        loaded == piexif_load(hs[h].exif)
        exif == IF Truthy(hs[h].exif) /\ loaded.ok
                THEN (OrientationTag :> orientation) @@ loaded.ifd
                ELSE (OrientationTag :> orientation)
    IN  IF ~(1 <= orientation /\ orientation <= 8)
        THEN [heifs |-> hs, transs |-> ts, ret |-> h]
        ELSE [heifs |-> ("h1" :> [hs[h] EXCEPT !.exif = piexif_dump(exif)]) @@ hs,
              transs |-> [ts EXCEPT ![hs[h].trans].orientation_tag = 0],
              ret |-> "h1"]

\* copy(heif) and copy(heif.transformations) allocate the objects "h1", "t1";
\* the result names the heap after the call and the object returned.
rotate_heif_file(hs, ts, h) ==
    LET orientation == ts[hs[h].trans].orientation_tag
        loaded == piexif_load(hs[h].exif)
        exif == IF Truthy(hs[h].exif) /\ loaded.ok
                THEN (OrientationTag :> orientation) @@ loaded.ifd
                ELSE (OrientationTag :> orientation)
    IN  IF ~(1 <= orientation /\ orientation <= 8)
        THEN [heifs |-> hs, transs |-> ts, ret |-> h]
        ELSE [heifs |-> ("h1" :> [hs[h] EXCEPT !.trans = "t1",
                                               !.exif = piexif_dump(exif)]) @@ hs,
              transs |-> ("t1" :> [ts[hs[h].trans] EXCEPT !.orientation_tag = 0]) @@ ts,
              ret |-> "h1"]

\* --------------------------------------------------------- _crop_heif_file
\* pixel_size = len(heif.mode)
PixelSize(mode) == Len(mode)

CropModes == {"L", "RGB", "RGBA"}

\* A variant of line 34 that forgets the pixel size.
CropOffsetInPixels(heif, crop) == heif.stride * crop[2] + crop[1]

\* Line 34: offset = heif.stride * crop[1] + pixel_size * crop[0]
CropOffset(heif, crop) == heif.stride * crop[2] + PixelSize(heif.mode) * crop[1]

\* Line 36: the length of the buffer, heif.stride * crop[3]
CropLength(heif, crop) == heif.stride * crop[4]

\* A variant of line 41 that records nothing.
KeepNothing(kr, cdata, data) == kr

\* Line 41: _keep_refs[cdata] = heif.data
KeepRef(kr, cdata, data) == (cdata :> data) @@ kr

\* _crop_heif_file(heif) on the heap (heif objects hs, Transformations ts,
\* cffi pointers cs, cffi buffers vs, _keep_refs kr).  ffi.from_buffer(...) +
\* offset is the pointer "cdata", which holds no reference to heif.data;
\* ffi.buffer(cdata, n) is the buffer "view", which holds cdata; copy(heif)
\* and copy(heif.transformations) are "h2" and "t2".
crop_heif_file(hs, ts, cs, vs, kr, h) ==
    LET heif == hs[h]
        crop == ts[heif.trans].crop
        same == [raised |-> "None", ret |-> h, heifs |-> hs, transs |-> ts,
                 cdatas |-> cs, views |-> vs, keep_refs |-> kr]
    IN  IF crop = <<0, 0>> \o heif.size THEN same
        ELSE IF heif.mode \notin CropModes THEN [same EXCEPT !.raised = "ValueError"]
        ELSE [raised |-> "None",
              ret |-> "h2",
              heifs |-> ("h2" :> [heif EXCEPT !.size = SubSeq(crop, 3, 4),
                                              !.trans = "t2",
                                              !.data = "view"]) @@ hs,
              transs |-> ("t2" :> [ts[heif.trans] EXCEPT
                                      !.crop = <<0, 0>> \o SubSeq(crop, 3, 4)]) @@ ts,
              cdatas |-> ("cdata" :> [base |-> heif.data,
                                      offset |-> CropOffset(heif, crop)]) @@ cs,
              views |-> ("view" :> [cdata |-> "cdata",
                                    length |-> CropLength(heif, crop)]) @@ vs,
              keep_refs |-> KeepRef(kr, "cdata", heif.data)]

\* ------------------------------------------------------- reading a buffer
\* Byte i (from 0) of the bytes-like object d, a storage id or a view id.  A
\* read past the storage, or of storage that was released, is undefined: it
\* gives the byte g the caller chose.
ReadByte(d, i, g) ==
    IF d \in DOMAIN views
    THEN LET c == cdatas[views[d].cdata]
             addr == c.offset + i
         IN  IF c.base \in DOMAIN bufs /\ addr < Len(bufs[c.base])
             THEN bufs[c.base][addr + 1]
             ELSE g
    ELSE IF d \in DOMAIN bufs /\ i < Len(bufs[d]) THEN bufs[d][i + 1] ELSE g

\* frombytes(data, "raw", (mode, stride)): size[1] rows of size[0] pixels, the
\* rows stride bytes apart in data.
frombytes(d, size, mode, stride, g) ==
    [r \in 1..size[2] |->
        [k \in 1..(size[1] * PixelSize(mode)) |->
            ReadByte(d, (r - 1) * stride + (k - 1), g)]]

\* ------------------------------------------------- the runtime's collector
\* What an object holds a reference to.
Refs(o) ==
    IF o \in DOMAIN heifs THEN {heifs[o].trans, heifs[o].data} \ {"None"}
    ELSE IF o \in DOMAIN views THEN {views[o].cdata}
    ELSE {}

\* self.heif_file, the local of a running load, and the values of _keep_refs
\* (a WeakKeyDictionary holds its values strongly, its keys weakly).
Roots ==
    ({self_heif_file, local_heif} \ {"None"}) \cup {keep_refs[k] : k \in DOMAIN keep_refs}

RECURSIVE ReachFrom(_)
ReachFrom(S) ==
    LET more == S \cup UNION {Refs(o) : o \in S}
    IN  IF more = S THEN S ELSE ReachFrom(more)

Reachable == ReachFrom(Roots)

Allocated ==
    DOMAIN heifs \cup DOMAIN transs \cup DOMAIN bufs \cup DOMAIN cdatas \cup DOMAIN views

Without(f, o) == [k \in DOMAIN f \ {o} |-> f[k]]

\* ------------------------------------------------------------------ _save
HEIF_ENC_BIN == "heif-enc"

\* enc.stdout.read(128 * 1024)
ChunkSize == 128 * 1024

\* An option of im.encoderinfo: given with value v, or not given.
Given(v) == [set |-> TRUE, v |-> v]
IntValue(n) == [kind |-> "int", n |-> n, s |-> ""]
StrValue(t) == [kind |-> "str", n |-> 0, s |-> t]
NoInfo ==
    [avif |-> [set |-> FALSE, v |-> FALSE],
     encoder |-> [set |-> FALSE, v |-> ""],
     quality |-> [set |-> FALSE, v |-> 0],
     downsampling |-> [set |-> FALSE, v |-> ""],
     subsampling |-> [set |-> FALSE, v |-> IntValue(0)],
     speed |-> [set |-> FALSE, v |-> 0],
     concurrency |-> [set |-> FALSE, v |-> 0]]

\* str(n) for n >= 0
Digit == <<"0", "1", "2", "3", "4", "5", "6", "7", "8", "9">>
RECURSIVE Str(_)
Str(n) == IF n < 10 THEN Digit[n + 1] ELSE Str(n \div 10) \o Digit[(n % 10) + 1]

\* filename.rpartition('.')[2]: what follows the last '.', the whole name
\* when it has none
RECURSIVE AfterLastDot(_, _)
AfterLastDot(name, i) ==
    IF i = 0 THEN name
    ELSE IF name[i] = "." THEN SubSeq(name, i + 1, Len(name))
    ELSE AfterLastDot(name, i - 1)

\* str.lower() on the characters file names are made of here
LowerChar(c) ==
    CASE c = "A" -> "a" [] c = "V" -> "v" [] c = "I" -> "i" [] c = "F" -> "f"
      [] OTHER -> c
Lower(name) == [i \in 1..Len(name) |-> LowerChar(name[i])]

\* Lines 189-192: whether the container is AVIF
WantsAvif(inf, name) ==
    IF inf.avif.set THEN inf.avif.v
    ELSE IF name # <<>> THEN Lower(AfterLastDot(name, Len(name))) = <<"a", "v", "i", "f">>
    ELSE FALSE

\* A variant of line 203 that accepts every token.
DownsamplingAny(d) == TRUE

\* Line 203: info['downsampling'] in ('nn', 'average', 'sharp-yuv')
DownsamplingOK(d) == d \in {"nn", "average", "sharp-yuv"}

\* Lines 209-214: the chroma token of an integer subsampling; another value
\* is passed on as it is
ChromaToken(v) ==
    IF v.kind = "int" /\ v.n = 0 THEN StrValue("444")
    ELSE IF v.kind = "int" /\ v.n = 1 THEN StrValue("422")
    ELSE IF v.kind = "int" /\ v.n = 2 THEN StrValue("420")
    ELSE v

\* Lines 187-221: the argument list, or the exception raised on the way.
\* 'chroma=' + subsampling raises TypeError for an integer left unmapped.
BuildCommand(inf, name, tmpname) ==
    LET c0 == <<HEIF_ENC_BIN, "-o", "/dev/stdout", tmpname>>
        c1 == IF WantsAvif(inf, name) THEN Append(c0, "-A") ELSE c0
        c2 == IF inf.encoder.set /\ inf.encoder.v # ""
              THEN c1 \o <<"-e", inf.encoder.v>> ELSE c1
        c3 == IF inf.quality.set THEN c2 \o <<"-q", Str(inf.quality.v)>> ELSE c2
        c4 == IF inf.downsampling.set THEN c3 \o <<"-C", inf.downsampling.v>> ELSE c3
        chroma == ChromaToken(inf.subsampling.v)
        c5 == IF inf.subsampling.set THEN c4 \o <<"-p", "chroma=" \o chroma.s>> ELSE c4
        c6 == IF inf.speed.set THEN c5 \o <<"-p", "speed=" \o Str(inf.speed.v)>> ELSE c5
        c7 == IF inf.concurrency.set
              THEN c6 \o <<"-p", "threads=" \o Str(inf.concurrency.v)>> ELSE c6
    IN  IF inf.downsampling.set /\ ~DownsamplingOK(inf.downsampling.v)
        THEN [raised |-> "ValueError", cmd |-> c3]
        ELSE IF inf.subsampling.set /\ chroma.kind = "int"
        THEN [raised |-> "TypeError", cmd |-> c4]
        ELSE [raised |-> "None", cmd |-> c7]

\* A variant of line 228 that takes only a positive status for a failure.
ExitFailsIfPositive(code) == code > 0

\* Line 228: if enc.wait(): any nonzero status, a negative one (killed by a
\* signal) too
ExitFails(code) == code # 0

\* A variant of line 177 that creates the file with delete=False.
TmpKept(exists) == exists

\* Line 177: leaving the with block of NamedTemporaryFile deletes the file
TmpAfterWith(exists) == FALSE

\* A variant of line 227 that passes on full chunks only.
SinkAfterFullWrite(snk, data) == IF data.len = ChunkSize THEN Append(snk, data) ELSE snk

\* Line 227: fp.write(data)
SinkAfterWrite(snk, data) == Append(snk, data)

\* ---------------------------------------------------------- idle parts
\* The load path before any load call.
LoadIdle ==
    /\ LOAD_TRUNCATED_IMAGES = FALSE
    /\ bufs = <<>>
    /\ cdatas = <<>>
    /\ views = <<>>
    /\ keep_refs = <<>>
    /\ lpc = "idle"
    /\ local_heif = "None"
    /\ im_pixels = <<>>
    /\ raised = "None"
    /\ decode_error = <<0, 0>>
    /\ n_load = 0
    /\ n_decode = 0
    /\ n_crop = 0

\* The save path before any save call.
NoChunk == [start |-> 0, len |-> 0]
NoRaise == [kind |-> "None", code |-> 0, cmd |-> <<>>]

SaveNotStarted ==
    /\ spc = "idle"
    /\ tmp_exists = FALSE
    /\ cmd = <<>>
    /\ child = "none"
    /\ spawned_cmd = <<>>
    /\ stdout_open = FALSE
    /\ reader_open = FALSE
    /\ child_written = 0
    /\ child_writes = 0
    /\ exit_code = 0
    /\ read_pos = 0
    /\ short_reads = 0
    /\ chunk = NoChunk
    /\ sink = <<>>
    /\ eof = FALSE
    /\ error = NoRaise

SaveIdle ==
    /\ im_mode = "RGB"
    /\ info = NoInfo
    /\ filename = <<>>
    /\ SaveNotStarted

\* ---------------------------------------------------- HeifImageFile._open
MaxItems == 3
MaxOrientation == 9

\* Exif blocks pyheif may hand over: well formed (tags out of order, so that
\* a dump is not the bytes loaded), well formed without an orientation, and
\* one with the magic whose body does not parse.
ExifBoth == ExifMagic \o <<OrientationTag, 6, MakeTag, 5>>
ExifMake == ExifMagic \o <<MakeTag, 7>>
ExifBroken == ExifMagic \o <<OrientationTag>>

ItemPool ==
    [type : {"Exif"},
     data : {None, <<>>, <<77, 77, 0, 42>>, ExifBoth, ExifMake, ExifBroken}]
    \cup [type : {"mime"}, data : {<<1>>, ExifMake}]

RECURSIVE SeqsUpTo(_, _)
SeqsUpTo(S, n) ==
    IF n = 0 THEN {<<>>}
    ELSE LET shorter == SeqsUpTo(S, n - 1)
         IN  shorter \cup {Append(q, x) : q \in {r \in shorter : Len(r) = n - 1}, x \in S}

MetadataInputs == SeqsUpTo(ItemPool, MaxItems) \cup {NoMetadata}

\* A heif object as pyheif.open returns it: the pixels are not decoded yet.
UndecodedHeif(mode, size, stride, metadata) ==
    [mode |-> mode, size |-> size, stride |-> stride, data |-> "None",
     trans |-> "t0", exif |-> None, metadata |-> metadata, loaded |-> FALSE]

InitOpen ==
    /\ hasTransformations \in BOOLEAN
    /\ \E m \in MetadataInputs :
          heifs = ("h0" :> UndecodedHeif("RGB", <<2, 2>>, 6, m))
    /\ \E o \in (-1)..MaxOrientation :
          transs = ("t0" :> [crop |-> <<0, 0, 2, 2>>, orientation_tag |-> o])
    /\ self_heif_file = "None"
    /\ self_size = <<0, 0>>
    /\ self_mode = "None"
    /\ self_info_exif = None
    /\ opc = "start"
    /\ given = [heif |-> heifs["h0"], trans |-> transs["t0"]]
    /\ LoadIdle
    /\ SaveIdle

\* _open, lines 103-109: pyheif.open succeeded, then _extract_heif_exif
OpenExtract ==
    /\ opc = "start"
    /\ heifs' = extract_heif_exif(heifs, "h0")
    /\ self_heif_file' = "h0"
    /\ opc' = "extracted"
    /\ UNCHANGED <<hasTransformations, transs, self_size, self_mode, self_info_exif, given,
                   loadVars, saveVars>>

\* _open, lines 106-107: pyheif.open raised HeifError, reported as SyntaxError
OpenSyntaxError ==
    /\ opc = "start"
    /\ opc' = "SyntaxError"
    /\ UNCHANGED <<imageVars, given, loadVars, saveVars>>

\* _open, lines 111-113: heif_file = _rotate_heif_file(heif_file)
OpenRotate ==
    /\ opc = "extracted"
    /\ hasTransformations
    /\ LET r == rotate_heif_file(heifs, transs, self_heif_file)
       IN  /\ heifs' = r.heifs
           /\ transs' = r.transs
           /\ self_heif_file' = r.ret
    /\ opc' = "rotated"
    /\ UNCHANGED <<hasTransformations, self_size, self_mode, self_info_exif, given,
                   loadVars, saveVars>>

\* _open, lines 113-140: size, mode, info['exif'], self.heif_file
OpenFinish ==
    /\ \/ opc = "rotated"
       \/ opc = "extracted" /\ ~hasTransformations
    /\ LET h == heifs[self_heif_file]
       IN  /\ self_size' = IF hasTransformations
                           THEN SubSeq(transs[h.trans].crop, 3, 4)
                           ELSE h.size
           /\ self_mode' = h.mode
           /\ self_info_exif' = IF Truthy(h.exif) THEN h.exif ELSE None
    /\ opc' = "opened"
    /\ UNCHANGED <<hasTransformations, heifs, transs, self_heif_file, given,
                   loadVars, saveVars>>

NextOpen == OpenExtract \/ OpenSyntaxError \/ OpenRotate \/ OpenFinish

SpecOpen == InitOpen /\ [][NextOpen]_vars

\* ----------------------------------------------------- HeifImageFile.load
MaxWidth == 2
MaxHeight == 2
MaxPad == 1
MaxLoads == 2

\* The modes the decoder may report; "LA" stands for one _crop_heif_file
\* does not know.
DecoderModes == CropModes \cup {"LA"}

\* The pixel bytes the decoder delivers: stride * height bytes, each one
\* telling its own position.
DecodedBytes(stride, height) == [i \in 1..(stride * height) |-> (i - 1) % 256]

\* The error pairs (code, subcode) of a HeifError; <<0, 0>> is no error.
NoError == <<0, 0>>
DecodeErrors == {<<7, 100>>, <<7, 101>>, <<5, 100>>}

\* The crop rectangles inside [0, 0, width, height]
CropRects(width, height) ==
    {<<x, y, w, h>> \in (0..width) \X (0..height) \X (1..width) \X (1..height) :
        x + w <= width /\ y + h <= height}

\* An image that _open has opened: the heif object is retained, undecoded.
\* Without pyheif.transformations the decoder applies the crop itself.
InitLoad ==
    /\ hasTransformations \in BOOLEAN
    /\ \E mode \in DecoderModes, width \in 1..MaxWidth, height \in 1..MaxHeight,
          pad \in 0..MaxPad :
          \E crop \in CropRects(width, height) :
            /\ hasTransformations \/ crop = <<0, 0, width, height>>
            /\ heifs = ("h0" :> UndecodedHeif(mode, <<width, height>>,
                                              width * PixelSize(mode) + pad, <<>>))
            /\ transs = ("t0" :> [crop |-> crop, orientation_tag |-> 0])
            /\ self_size = SubSeq(crop, 3, 4)
            /\ self_mode = mode
    /\ self_heif_file = "h0"
    /\ self_info_exif = None
    /\ opc = "opened"
    /\ given = [heif |-> heifs["h0"], trans |-> transs["t0"]]
    /\ LOAD_TRUNCATED_IMAGES \in BOOLEAN
    /\ bufs = <<>>
    /\ cdatas = <<>>
    /\ views = <<>>
    /\ keep_refs = <<>>
    /\ lpc = "idle"
    /\ local_heif = "None"
    /\ im_pixels = <<>>
    /\ raised = "None"
    /\ decode_error = NoError
    /\ n_load = 0
    /\ n_decode = 0
    /\ n_crop = 0
    /\ SaveIdle

\* A variant of line 143 that leaves self.heif_file in place.
TakenKeep(h) == h

\* Line 143: the value self.heif_file gets when load takes the heif object h.
Taken(h) == "None"

\* load, lines 143-144 and 162: nothing is retained, straight to super().load()
LoadNothing ==
    /\ lpc = "idle"
    /\ n_load < MaxLoads
    /\ self_heif_file = "None"
    /\ n_load' = n_load + 1
    /\ raised' = "None"
    /\ UNCHANGED <<imageVars, openVars, saveVars, LOAD_TRUNCATED_IMAGES, bufs, cdatas,
                   views, keep_refs, lpc, local_heif, im_pixels, decode_error, n_decode,
                   n_crop>>

\* load, lines 143-146 and 153: the decoder loads the pixels into the heif
LoadDecode ==
    /\ lpc = "idle"
    /\ n_load < MaxLoads
    /\ self_heif_file # "None"
    /\ LET h == self_heif_file
       IN  /\ local_heif' = h
           /\ self_heif_file' = Taken(h)
           /\ heifs' = [heifs EXCEPT ![h].data = "odata", ![h].loaded = TRUE]
           /\ bufs' = ("odata" :> DecodedBytes(heifs[h].stride, heifs[h].size[2])) @@ bufs
    /\ n_load' = n_load + 1
    /\ n_decode' = n_decode + 1
    /\ decode_error' = NoError
    /\ raised' = "None"
    /\ lpc' = "crop"
    /\ UNCHANGED <<hasTransformations, transs, self_size, self_mode, self_info_exif,
                   openVars, saveVars, LOAD_TRUNCATED_IMAGES, cdatas, views, keep_refs,
                   im_pixels, n_crop>>

\* load, lines 143-153: the decoder raises HeifError(code, subcode)
LoadDecodeError ==
    /\ lpc = "idle"
    /\ n_load < MaxLoads
    /\ self_heif_file # "None"
    /\ \E e \in DecodeErrors :
          LET cropped_file == e[1] = 7 /\ e[2] = 100
          IN  /\ decode_error' = e
              /\ IF ~cropped_file \/ ~LOAD_TRUNCATED_IMAGES
                 THEN /\ raised' = "HeifError"
                      /\ local_heif' = "None"
                      /\ lpc' = "idle"
                 ELSE /\ raised' = "None"
                      /\ local_heif' = self_heif_file
                      /\ lpc' = "crop"
    /\ self_heif_file' = Taken(self_heif_file)
    /\ n_load' = n_load + 1
    /\ n_decode' = n_decode + 1
    /\ UNCHANGED <<hasTransformations, heifs, transs, self_size, self_mode, self_info_exif,
                   openVars, saveVars, LOAD_TRUNCATED_IMAGES, bufs, cdatas, views,
                   keep_refs, im_pixels, n_crop>>

\* load, lines 155-157: if heif_file.data and Transformations is not None,
\* heif_file = _crop_heif_file(heif_file)
LoadCrop ==
    /\ lpc = "crop"
    /\ IF heifs[local_heif].data = "None"
       THEN /\ lpc' = "release"
            /\ UNCHANGED <<heifs, transs, cdatas, views, keep_refs, local_heif, raised,
                           n_crop>>
       ELSE IF ~hasTransformations
       THEN /\ lpc' = "frombytes"
            /\ UNCHANGED <<heifs, transs, cdatas, views, keep_refs, local_heif, raised,
                           n_crop>>
       ELSE LET r == crop_heif_file(heifs, transs, cdatas, views, keep_refs, local_heif)
            IN  /\ n_crop' = n_crop + 1
                /\ heifs' = r.heifs
                /\ transs' = r.transs
                /\ cdatas' = r.cdatas
                /\ views' = r.views
                /\ keep_refs' = r.keep_refs
                /\ raised' = r.raised
                /\ IF r.raised = "None"
                   THEN local_heif' = r.ret /\ lpc' = "frombytes"
                   ELSE local_heif' = "None" /\ lpc' = "idle"
    /\ UNCHANGED <<hasTransformations, self_heif_file, self_size, self_mode,
                   self_info_exif, openVars, saveVars, LOAD_TRUNCATED_IMAGES, bufs,
                   im_pixels, decode_error, n_load, n_decode>>

\* load, line 158: self.frombytes(heif_file.data, "raw", (self.mode, stride))
LoadFromBytes ==
    /\ lpc = "frombytes"
    /\ \E g \in {0, 255} :
          im_pixels' = frombytes(heifs[local_heif].data, self_size, self_mode,
                                 heifs[local_heif].stride, g)
    /\ lpc' = "release"
    /\ UNCHANGED <<imageVars, openVars, saveVars, LOAD_TRUNCATED_IMAGES, bufs, cdatas,
                   views, keep_refs, local_heif, raised, decode_error, n_load, n_decode,
                   n_crop>>

\* load, lines 160-162: heif_file.data = None, then super().load() and return
LoadRelease ==
    /\ lpc = "release"
    /\ heifs' = [heifs EXCEPT ![local_heif].data = "None"]
    /\ local_heif' = "None"
    /\ lpc' = "idle"
    /\ UNCHANGED <<hasTransformations, transs, self_heif_file, self_size, self_mode,
                   self_info_exif, openVars, saveVars, LOAD_TRUNCATED_IMAGES, bufs,
                   cdatas, views, keep_refs, im_pixels, raised, decode_error, n_load,
                   n_decode, n_crop>>

\* The runtime releases an object nothing refers to any more; a released key
\* takes its _keep_refs entry with it.
Collect ==
    /\ \E o \in Allocated \ Reachable :
          /\ heifs' = Without(heifs, o)
          /\ transs' = Without(transs, o)
          /\ bufs' = Without(bufs, o)
          /\ cdatas' = Without(cdatas, o)
          /\ views' = Without(views, o)
          /\ keep_refs' = Without(keep_refs, o)
    /\ UNCHANGED <<hasTransformations, self_heif_file, self_size, self_mode,
                   self_info_exif, openVars, saveVars, LOAD_TRUNCATED_IMAGES, lpc,
                   local_heif, im_pixels, raised, decode_error, n_load, n_decode, n_crop>>

NextLoad ==
    \/ LoadNothing
    \/ LoadDecode
    \/ LoadDecodeError
    \/ LoadCrop
    \/ LoadFromBytes
    \/ LoadRelease
    \/ Collect

SpecLoad == InitLoad /\ [][NextLoad]_vars

\* ------------------------------------------------------------------ _save
MaxChildWrites == 2
MaxShortReads == 1

SaveModes == {"RGB", "1", "P", "PA"}

FileNames ==
    {<<>>,
     <<"a", ".", "h", "e", "i", "c">>,
     <<"p", ".", "A", "V", "I", "F">>,
     <<"a", "v", "i", "f">>}

\* The encoderinfo dicts tried: nothing given; everything given; each
\* downsampling token and each subsampling value, an unknown token and an
\* unmapped integer among them; options given with falsy values.
InfoInputs ==
    {NoInfo,
     [NoInfo EXCEPT !.avif = Given(TRUE), !.encoder = Given("x265"),
                    !.quality = Given(50), !.downsampling = Given("sharp-yuv"),
                    !.subsampling = Given(IntValue(2)), !.speed = Given(5),
                    !.concurrency = Given(4)],
     [NoInfo EXCEPT !.avif = Given(FALSE), !.downsampling = Given("nn"),
                    !.subsampling = Given(IntValue(0))],
     [NoInfo EXCEPT !.encoder = Given(""), !.quality = Given(0),
                    !.downsampling = Given("average"),
                    !.subsampling = Given(IntValue(1))],
     [NoInfo EXCEPT !.subsampling = Given(StrValue("444"))],
     [NoInfo EXCEPT !.subsampling = Given(IntValue(3))],
     [NoInfo EXCEPT !.downsampling = Given("bogus")],
     [NoInfo EXCEPT !.avif = Given(TRUE), !.encoder = Given("x265"),
                    !.quality = Given(50), !.downsampling = Given("bogus"),
                    !.subsampling = Given(IntValue(3)), !.speed = Given(5),
                    !.concurrency = Given(4)]}

\* What the child may write in one call, and the statuses it may exit with
\* (-9: killed by a signal).
WriteSizes == {1, ChunkSize, ChunkSize + 1}
ExitCodes == {0, 1, -9}

Raise(kind) == [kind |-> kind, code |-> 0, cmd |-> <<>>]

InitSave ==
    /\ hasTransformations = TRUE
    /\ heifs = <<>>
    /\ transs = <<>>
    /\ self_heif_file = "None"
    /\ self_size = <<0, 0>>
    /\ self_mode = "None"
    /\ self_info_exif = None
    /\ opc = "start"
    /\ given = <<>>
    /\ LoadIdle
    /\ im_mode \in SaveModes
    /\ info \in InfoInputs
    /\ filename \in FileNames
    /\ SaveNotStarted

\* _save, lines 173-175: palette modes are refused
SaveCheckMode ==
    /\ spc = "idle"
    /\ IF im_mode \in {"P", "PA"}
       THEN spc' = "raised" /\ error' = Raise("IOError")
       ELSE spc' = "intermediate" /\ error' = error
    /\ UNCHANGED <<imageVars, openVars, loadVars, short_reads, im_mode, info, filename,
                   tmp_exists, cmd, child, spawned_cmd, stdout_open, reader_open,
                   child_written, child_writes, exit_code, read_pos, chunk, sink, eof>>

\* _save, lines 177-185: the temporary file is created and the PNG written
\* into it (mode "1" converted to "L" first)
SaveWriteIntermediate ==
    /\ spc = "intermediate"
    /\ tmp_exists' = TRUE
    /\ im_mode' = IF im_mode = "1" THEN "L" ELSE im_mode
    /\ spc' = "build"
    /\ UNCHANGED <<imageVars, openVars, loadVars, short_reads, info, filename, cmd,
                   child, spawned_cmd, stdout_open, reader_open, child_written,
                   child_writes, exit_code, read_pos, chunk, sink, eof, error>>

\* _save, lines 187-221: the command is built; an exception leaves the with
\* block, which deletes the temporary file
SaveBuildCommand ==
    /\ spc = "build"
    /\ LET b == BuildCommand(info, filename, "tmp.png")
       IN  /\ cmd' = b.cmd
           /\ IF b.raised = "None"
              THEN /\ spc' = "launch"
                   /\ UNCHANGED <<tmp_exists, error>>
              ELSE /\ spc' = "raised"
                   /\ error' = Raise(b.raised)
                   /\ tmp_exists' = TmpAfterWith(tmp_exists)
    /\ UNCHANGED <<imageVars, openVars, loadVars, short_reads, im_mode, info, filename,
                   child, spawned_cmd, stdout_open, reader_open, child_written,
                   child_writes, exit_code, read_pos, chunk, sink, eof>>

\* _save, line 225: Popen(cmd, stdout=PIPE) starts the encoder
SaveLaunch ==
    /\ spc = "launch"
    /\ child' = "running"
    /\ spawned_cmd' = cmd
    /\ stdout_open' = TRUE
    /\ reader_open' = TRUE
    /\ spc' = "read"
    /\ UNCHANGED <<imageVars, openVars, loadVars, short_reads, im_mode, info, filename,
                   tmp_exists, cmd, child_written, child_writes, exit_code, read_pos,
                   chunk, sink, eof, error>>

\* _save, lines 225 and 230-233: Popen does not find the executable
SaveLaunchNotFound ==
    /\ spc = "launch"
    /\ error' = Raise("FileNotFoundError")
    /\ tmp_exists' = TmpAfterWith(tmp_exists)
    /\ spc' = "raised"
    /\ UNCHANGED <<imageVars, openVars, loadVars, short_reads, im_mode, info, filename,
                   cmd, child, spawned_cmd, stdout_open, reader_open, child_written,
                   child_writes, exit_code, read_pos, chunk, sink, eof>>

\* The encoder writes n more bytes to its stdout.
ChildWrite ==
    /\ child = "running"
    /\ stdout_open
    /\ reader_open
    /\ child_writes < MaxChildWrites
    /\ \E n \in WriteSizes : child_written' = child_written + n
    /\ child_writes' = child_writes + 1
    /\ UNCHANGED <<imageVars, openVars, loadVars, short_reads, im_mode, info, filename,
                   spc, tmp_exists, cmd, child, spawned_cmd, stdout_open, reader_open,
                   exit_code, read_pos, chunk, sink, eof, error>>

\* The encoder closes its stdout and keeps running.
ChildClose ==
    /\ child = "running"
    /\ stdout_open
    /\ stdout_open' = FALSE
    /\ UNCHANGED <<imageVars, openVars, loadVars, short_reads, im_mode, info, filename,
                   spc, tmp_exists, cmd, child, spawned_cmd, reader_open, child_written,
                   child_writes, exit_code, read_pos, chunk, sink, eof, error>>

\* The encoder exits (or is killed); its stdout closes with it.
ChildExit ==
    /\ child = "running"
    /\ child' = "exited"
    /\ stdout_open' = FALSE
    /\ exit_code' \in ExitCodes
    /\ UNCHANGED <<imageVars, openVars, loadVars, short_reads, im_mode, info, filename,
                   spc, tmp_exists, cmd, spawned_cmd, reader_open, child_written,
                   child_writes, read_pos, chunk, sink, eof, error>>

\* _save, line 226: enc.stdout.read(128 * 1024) returns some bytes
SaveRead ==
    /\ spc = "read"
    /\ child_written > read_pos
    /\ LET avail == child_written - read_pos
           most == IF avail < ChunkSize THEN avail ELSE ChunkSize
       IN  \E k \in {1, most} :
              /\ k = most \/ short_reads < MaxShortReads
              /\ chunk' = [start |-> read_pos, len |-> k]
              /\ read_pos' = read_pos + k
              /\ short_reads' = IF k = most THEN short_reads ELSE short_reads + 1
    /\ spc' = "write"
    /\ UNCHANGED <<imageVars, openVars, loadVars, im_mode, info, filename, tmp_exists,
                   cmd, child, spawned_cmd, stdout_open, reader_open, child_written,
                   child_writes, exit_code, sink, eof, error>>

\* _save, line 226: the read returns b'', which ends the loop
SaveReadEOF ==
    /\ spc = "read"
    /\ child_written = read_pos
    /\ ~stdout_open
    /\ eof' = TRUE
    /\ spc' = "wait"
    /\ UNCHANGED <<imageVars, openVars, loadVars, short_reads, im_mode, info, filename,
                   tmp_exists, cmd, child, spawned_cmd, stdout_open, reader_open,
                   child_written, child_writes, exit_code, read_pos, chunk, sink, error>>

\* _save, line 227: fp.write(data)
SaveWrite ==
    /\ spc = "write"
    /\ sink' = SinkAfterWrite(sink, chunk)
    /\ chunk' = NoChunk
    /\ spc' = "read"
    /\ UNCHANGED <<imageVars, openVars, loadVars, short_reads, im_mode, info, filename,
                   tmp_exists, cmd, child, spawned_cmd, stdout_open, reader_open,
                   child_written, child_writes, exit_code, read_pos, eof, error>>

\* _save, line 227: fp.write(data) raises, after taking none or part of the
\* chunk; Popen.__exit__ closes enc.stdout and then waits for the child
SaveWriteFails ==
    /\ spc = "write"
    /\ \E j \in {0, chunk.len - 1} :
          sink' = IF j = 0 THEN sink ELSE Append(sink, [start |-> chunk.start, len |-> j])
    /\ chunk' = NoChunk
    /\ error' = Raise("SinkError")
    /\ reader_open' = FALSE
    /\ spc' = "unwind"
    /\ UNCHANGED <<imageVars, openVars, loadVars, short_reads, im_mode, info, filename,
                   tmp_exists, cmd, child, spawned_cmd, stdout_open, child_written,
                   child_writes, exit_code, read_pos, eof>>

\* _save, lines 228-229: enc.wait() returns once the child has exited; a
\* failing status raises CalledProcessError(returncode, cmd); either way the
\* two with blocks are left
SaveWait ==
    /\ spc = "wait"
    /\ child = "exited"
    /\ child' = "reaped"
    /\ reader_open' = FALSE
    /\ IF ExitFails(exit_code)
       THEN /\ error' = [kind |-> "CalledProcessError", code |-> exit_code, cmd |-> cmd]
            /\ spc' = "raised"
       ELSE /\ error' = error
            /\ spc' = "returned"
    /\ tmp_exists' = TmpAfterWith(tmp_exists)
    /\ UNCHANGED <<imageVars, openVars, loadVars, short_reads, im_mode, info, filename,
                   cmd, spawned_cmd, stdout_open, child_written, child_writes, exit_code,
                   read_pos, chunk, sink, eof>>

\* _save, line 225: Popen.__exit__ on the way out of an exception waits for
\* the child, then the temporary file's with block is left
SaveUnwind ==
    /\ spc = "unwind"
    /\ child = "exited"
    /\ child' = "reaped"
    /\ tmp_exists' = TmpAfterWith(tmp_exists)
    /\ spc' = "raised"
    /\ UNCHANGED <<imageVars, openVars, loadVars, short_reads, im_mode, info, filename,
                   cmd, spawned_cmd, stdout_open, reader_open, child_written,
                   child_writes, exit_code, read_pos, chunk, sink, eof, error>>

NextSave ==
    \/ SaveCheckMode
    \/ SaveWriteIntermediate
    \/ SaveBuildCommand
    \/ SaveLaunch
    \/ SaveLaunchNotFound
    \/ ChildWrite
    \/ ChildClose
    \/ ChildExit
    \/ SaveRead
    \/ SaveReadEOF
    \/ SaveWrite
    \/ SaveWriteFails
    \/ SaveWait
    \/ SaveUnwind

SpecSave == InitSave /\ [][NextSave]_vars

\* ------------------------------------------------------- claims on _open
\* The items pyheif.open handed over, and what _extract_heif_exif must make
\* of them, stated without the loop.
GivenItems == MetadataOrEmpty(given.heif.metadata)
IsValidExif(item) ==
    /\ item.type = "Exif"
    /\ item.data # None
    /\ Len(item.data) >= 4
    /\ SubSeq(item.data, 1, 4) = ExifMagic
ValidExifAt == {i \in 1..Len(GivenItems) : IsValidExif(GivenItems[i])}
IsNotExif(item) == item.type # "Exif"
ExpectedExif == IF ValidExifAt = {} THEN None ELSE GivenItems[MinOf(ValidExifAt)].data
Extracted == opc \in {"extracted", "rotated", "opened"}

\* C9: after _extract_heif_exif the heif's exif is the data of the first
\* Exif-typed item that begins with b"Exif" (None when there is none), and its
\* metadata is the non-Exif items in their original order, every Exif-typed
\* item dropped; a malformed Exif item earlier in the list does not stop a
\* later valid one from being taken.
C9_ExtractFirstValidExif ==
    Extracted =>
        /\ heifs["h0"].exif = ExpectedExif
        /\ heifs["h0"].metadata = SelectSeq(GivenItems, IsNotExif)

\* C9 witness: a malformed Exif item first, a non-Exif item, then two valid
\* Exif items, of which the first was extracted.
C9_Witness ==
    /\ opc = "extracted"
    /\ Len(GivenItems) = 3
    /\ GivenItems[1] = [type |-> "Exif", data |-> <<77, 77, 0, 42>>]
    /\ GivenItems[2] = [type |-> "mime", data |-> <<1>>]
    /\ GivenItems[3] = [type |-> "Exif", data |-> ExifMake]
    /\ heifs["h0"].exif = ExifMake
    /\ heifs["h0"].metadata = <<[type |-> "mime", data |-> <<1>>]>>

\* The input of _rotate_heif_file: h0 as _extract_heif_exif left it.
RotateInput == [given.heif EXCEPT !.exif = ExpectedExif,
                                  !.metadata = SelectSeq(GivenItems, IsNotExif)]
RotateTag == given.trans.orientation_tag
RotateResult == heifs[self_heif_file]
OrientationOnly == ExifMagic \o <<OrientationTag, RotateTag>>

\* C8: for a tag in 1..8 _rotate_heif_file returns a new heif whose
\* orientation_tag is 0 and whose Exif is: exactly the orientation when the
\* input has no Exif or one that does not parse, the parsed input with the
\* orientation overwritten otherwise; for a tag outside 1..8 it returns its
\* input; the input heif and its Transformations are never changed.
C8_RotateFoldsOrientation ==
    opc = "rotated" =>
        /\ heifs["h0"] = RotateInput
        /\ transs["t0"] = given.trans
        /\ IF 1 <= RotateTag /\ RotateTag <= 8
           THEN /\ self_heif_file # "h0"
                /\ transs[RotateResult.trans].orientation_tag = 0
                /\ transs[RotateResult.trans].crop = given.trans.crop
                /\ LET old == piexif_load(heifs["h0"].exif)
                       new == piexif_load(RotateResult.exif)
                   IN  IF Truthy(heifs["h0"].exif) /\ old.ok
                       THEN /\ new.ok
                            /\ DOMAIN new.ifd = DOMAIN old.ifd \cup {OrientationTag}
                            /\ new.ifd[OrientationTag] = RotateTag
                            /\ \A t \in DOMAIN old.ifd \ {OrientationTag} :
                                  new.ifd[t] = old.ifd[t]
                       ELSE RotateResult.exif = OrientationOnly
           ELSE /\ self_heif_file = "h0"
                /\ DOMAIN heifs = {"h0"}
                /\ DOMAIN transs = {"t0"}

\* C8 witness: tag 6 and no Exif gave a new heif with an orientation-only Exif.
C8_Witness ==
    /\ opc = "rotated"
    /\ RotateTag = 6
    /\ heifs["h0"].exif = None
    /\ self_heif_file = "h1"
    /\ heifs["h1"].exif = ExifMagic \o <<OrientationTag, 6>>
    /\ transs[heifs["h1"].trans].orientation_tag = 0

\* -------------------------------------------- claims on load and the crop
\* The image the decoder delivered to the first load call.
OrigStride == given.heif.stride
OrigSize == given.heif.size
OrigCrop == given.trans.crop
OrigBytes == DecodedBytes(OrigStride, OrigSize[2])
OrigPixelSize == PixelSize(given.heif.mode)

\* The rectangle OrigCrop cut out of OrigBytes, row by row.
SlicedRows ==
    [r \in 1..OrigCrop[4] |->
        [k \in 1..(OrigCrop[3] * OrigPixelSize) |->
            OrigBytes[(OrigCrop[2] + r - 1) * OrigStride
                      + OrigCrop[1] * OrigPixelSize + k]]]

\* C1, as claimed: every view _crop_heif_file builds ends inside the storage
\* it points into, offset + stride * h <= the storage's length.  The code
\* breaks it for a crop that touches the bottom edge with x > 0.
C1_ViewWithinBuffer ==
    \A v \in DOMAIN views :
        LET c == cdatas[views[v].cdata]
        IN  c.base \in DOMAIN bufs =>
                c.offset + views[v].length <= Len(bufs[c.base])

\* C2: once load has cropped and read the pixels, the rows stored are the
\* rectangle sliced out of the decoder's bytes, and the heif returned by
\* _crop_heif_file has the rectangle's size and the crop (0, 0, w, h).
C2_CropReadsRectangle ==
    (lpc = "release" /\ hasTransformations /\ heifs[local_heif].loaded) =>
        /\ im_pixels = SlicedRows
        /\ heifs[local_heif].size = SubSeq(OrigCrop, 3, 4)
        /\ transs[heifs[local_heif].trans].crop = <<0, 0>> \o SubSeq(OrigCrop, 3, 4)

\* C2 witness: an RGB image of 2 x 2 pixels with a padded stride, cropped to
\* its bottom right pixel, has been read through the view.
C2_Witness ==
    /\ lpc = "release"
    /\ given.heif.mode = "RGB"
    /\ OrigStride = 7
    /\ OrigCrop = <<1, 1, 1, 1>>
    /\ local_heif = "h2"
    /\ heifs["h2"].data = "view"
    /\ im_pixels = <<<<10, 11, 12>>>>

\* C3: while a view is reachable its pointer is alive, _keep_refs holds the
\* storage under that pointer, and the storage has not been released.
C3_ViewKeepsStorage ==
    \A v \in DOMAIN views \cap Reachable :
        LET k == views[v].cdata
        IN  /\ k \in DOMAIN cdatas
            /\ k \in DOMAIN keep_refs
            /\ keep_refs[k] = cdatas[k].base
            /\ cdatas[k].base \in DOMAIN bufs

\* C3 witness: the view is about to be read, the heif object the storage came
\* from has been released, and the storage is still there.
C3_Witness ==
    /\ lpc = "frombytes"
    /\ "view" \in Reachable
    /\ "h0" \notin DOMAIN heifs
    /\ "odata" \in DOMAIN bufs
    /\ keep_refs = ("cdata" :> "odata")

\* C10: the decoder's load and _crop_heif_file run at most once per image;
\* after the first load call self.heif_file is None; the first call raises
\* the decoder's error unless it is (7, 100) and LOAD_TRUNCATED_IMAGES is set.
C10_LoadOnce ==
    /\ n_decode <= 1
    /\ n_crop <= 1
    /\ n_load >= 1 => self_heif_file = "None"
    /\ (n_load = 1 /\ decode_error # NoError) =>
          ((raised = "HeifError") <=>
              ~(decode_error = <<7, 100>> /\ LOAD_TRUNCATED_IMAGES))
    /\ (n_load = 1 /\ decode_error = NoError) => raised # "HeifError"

\* C10 witness: a second load call returned after the first one had raised
\* the decoder's error; the decoder ran once.
C10_Witness ==
    /\ n_load = 2
    /\ n_decode = 1
    /\ n_crop = 0
    /\ decode_error = <<7, 101>>
    /\ raised = "None"
    /\ lpc = "idle"

\* ------------------------------------------------------- claims on _save
RECURSIVE SumLens(_, _)
SumLens(snk, n) == IF n = 0 THEN 0 ELSE SumLens(snk, n - 1) + snk[n].len

\* The number of bytes fp has received.
SinkTotal == SumLens(sink, Len(sink))

\* The bytes fp has received are bytes 0, 1, 2, ... of the child's output:
\* every write starts where the one before it ended.
SinkInOrder == \A i \in 1..Len(sink) : sink[i].start = SumLens(sink, i - 1)

Terminal == spc \in {"returned", "raised"}

\* C4: what the sink has received is always a prefix of what the child has
\* written; every write is one chunk of 1..128 KiB; a chunk read is written
\* before the next read is issued; once the loop has seen end-of-stream the
\* sink holds the child's whole output.
C4_SinkIsPrefix ==
    /\ SinkInOrder
    /\ SinkTotal <= child_written
    /\ \A i \in 1..Len(sink) : 1 <= sink[i].len /\ sink[i].len <= ChunkSize
    /\ spc = "read" => (chunk = NoChunk /\ SinkTotal = read_pos)
    /\ spc = "write" => /\ chunk.start = SinkTotal
                        /\ chunk.start + chunk.len = read_pos
                        /\ 1 <= chunk.len /\ chunk.len <= ChunkSize
    /\ eof => SinkTotal = child_written

\* C4 witness: the child wrote 128 KiB + 1 bytes in one call; the loop passed
\* them on as a full chunk and a chunk of one byte and then saw end-of-stream.
C4_Witness ==
    /\ eof
    /\ child_writes = 1
    /\ child_written = ChunkSize + 1
    /\ sink = <<[start |-> 0, len |-> ChunkSize], [start |-> ChunkSize, len |-> 1]>>

\* C5, as claimed: whenever _save has ended and the child exited with a
\* nonzero status, _save raised CalledProcessError with that status and the
\* command, after end-of-stream, and the sink holds the child's whole output.
C5_NonzeroExitIsProcessError ==
    (Terminal /\ child = "reaped" /\ exit_code # 0) =>
        /\ error = [kind |-> "CalledProcessError", code |-> exit_code, cmd |-> spawned_cmd]
        /\ eof
        /\ SinkTotal = child_written

\* C5, amended: the same for a run whose read loop reached end-of-stream;
\* CalledProcessError is raised only after end-of-stream, with the child
\* waited for, no chunk pending and a nonzero status; _save returns only
\* after end-of-stream with status 0; a run that ended with a child and
\* without end-of-stream raised the sink's error.
C5_ProcessErrorAfterDrain ==
    /\ (Terminal /\ eof /\ exit_code # 0) =>
          /\ error = [kind |-> "CalledProcessError", code |-> exit_code,
                      cmd |-> spawned_cmd]
          /\ SinkTotal = child_written
    /\ error.kind = "CalledProcessError" =>
          /\ eof
          /\ child = "reaped"
          /\ exit_code # 0
          /\ chunk = NoChunk
          /\ SinkTotal = child_written
    /\ spc = "returned" =>
          /\ eof
          /\ child = "reaped"
          /\ exit_code = 0
          /\ SinkTotal = child_written
          /\ error = NoRaise
    /\ (Terminal /\ child = "reaped" /\ ~eof) => error.kind = "SinkError"

\* C5 witness: the child wrote a byte and was killed; _save passed the byte
\* on and raised CalledProcessError(-9, cmd).
C5_Witness ==
    /\ spc = "raised"
    /\ error.kind = "CalledProcessError"
    /\ error.code = -9
    /\ error.cmd = spawned_cmd
    /\ child_written = 1
    /\ sink = <<[start |-> 0, len |-> 1]>>

\* The argument list _save must hand to Popen, option by option.
ExpectAvif ==
    IF info.avif.set THEN info.avif.v
    ELSE filename \in {<<"p", ".", "A", "V", "I", "F">>, <<"a", "v", "i", "f">>}
ExpectChroma ==
    IF info.subsampling.v.kind = "str" THEN info.subsampling.v.s
    ELSE <<"444", "422", "420">>[info.subsampling.v.n + 1]
ExpectedCommand ==
    <<"heif-enc", "-o", "/dev/stdout", "tmp.png">>
    \o (IF ExpectAvif THEN <<"-A">> ELSE <<>>)
    \o (IF info.encoder.set /\ info.encoder.v # "" THEN <<"-e", info.encoder.v>> ELSE <<>>)
    \o (IF info.quality.set THEN <<"-q", Str(info.quality.v)>> ELSE <<>>)
    \o (IF info.downsampling.set THEN <<"-C", info.downsampling.v>> ELSE <<>>)
    \o (IF info.subsampling.set THEN <<"-p", "chroma=" \o ExpectChroma>> ELSE <<>>)
    \o (IF info.speed.set THEN <<"-p", "speed=" \o Str(info.speed.v)>> ELSE <<>>)
    \o (IF info.concurrency.set
        THEN <<"-p", "threads=" \o Str(info.concurrency.v)>> ELSE <<>>)
BadDownsampling ==
    info.downsampling.set /\ info.downsampling.v \notin {"nn", "average", "sharp-yuv"}

\* C6: a palette mode or an unknown downsampling token makes _save raise
\* (IOError, ValueError) without a child ever spawned and without a byte
\* written to the sink; a child is spawned only with the complete argument
\* list.
C6_ValidationBeforeLaunch ==
    /\ error.kind \in {"IOError", "ValueError", "TypeError"} =>
          (child = "none" /\ spawned_cmd = <<>> /\ sink = <<>>)
    /\ im_mode \in {"P", "PA"} =>
          /\ child = "none" /\ sink = <<>>
          /\ spc \in {"idle", "raised"}
          /\ spc = "raised" => error.kind = "IOError"
    /\ (BadDownsampling /\ im_mode \notin {"P", "PA"}) =>
          /\ child = "none" /\ sink = <<>>
          /\ spc \in {"idle", "intermediate", "build", "raised"}
          /\ spc = "raised" => error.kind = "ValueError"
    /\ child # "none" => spawned_cmd = ExpectedCommand

\* C6 witness: the token "bogus" made _save raise ValueError with every other
\* option given; no child, nothing in the sink.
C6_Witness ==
    /\ spc = "raised"
    /\ error.kind = "ValueError"
    /\ info.downsampling = Given("bogus")
    /\ info.quality = Given(50)
    /\ child = "none"
    /\ sink = <<>>

\* C7: when _save has returned or raised, the temporary file is gone and a
\* child that was spawned has been waited for.
C7_NoLeak ==
    Terminal =>
        /\ ~tmp_exists
        /\ child \in {"none", "reaped"}
        /\ spawned_cmd # <<>> => child = "reaped"

\* C7 witness: fp.write raised after taking part of a chunk; the child has
\* been waited for and the temporary file deleted.
C7_Witness ==
    /\ spc = "raised"
    /\ error.kind = "SinkError"
    /\ child = "reaped"
    /\ ~tmp_exists
    /\ sink # <<>>
    /\ SinkTotal < read_pos

====
